---- MODULE Spec2Model ----
(***************************************************************************)
(* Theater management: the controller (src/controller.py) over the         *)
(* PostgreSQL data layer (src/data.py).                                    *)
(*                                                                         *)
(* The database tables are the state.  Every controller operation is one   *)
(* atomic action (the application is single threaded); inside an action    *)
(* the data-layer calls are applied in the order the controller issues     *)
(* them.  Every data-layer write commits on its own and, when the database *)
(* raises psycopg2.Error, rolls back and returns False / None.  Schema     *)
(* CHECK / UNIQUE / FOREIGN KEY violations are computed; "faulty" names    *)
(* the data-layer write the database also rejects in this run for a reason *)
(* outside the schema (a lost privilege, a full disk), or "none".          *)
(*                                                                         *)
(* Arithmetic: the code computes with Python floats and truncates with     *)
(* int(); the model computes the same expressions exactly, in hundredths   *)
(* (0.15 is 15, 0.7 is 70), and truncates with \div.  Draws of the random  *)
(* module are inputs.  Money amounts are kept small so that every product  *)
(* stays inside TLC's 32-bit integers.                                     *)
(*                                                                         *)
(* "sequences" holds the last values of the SERIAL sequences of actors and *)
(* plots.  "dialog" is the position of the user interface: the main window *)
(* or the modal NewPerformanceDialog and the place its create_performance  *)
(* handler has reached; the controller operations do not read it.          *)
(***************************************************************************)
EXTENDS Integers, Sequences, FiniteSets, TLC

VARIABLES actors, plots, performances, actor_performances, game_data,
          last, faulty, sequences, dialog

vars == <<actors, plots, performances, actor_performances, game_data,
          last, faulty, sequences, dialog>>

(***************************************************************************)
(* Bounds of the model.                                                    *)
(***************************************************************************)
MaxYear == 2026
MaxCast == 2
QMax == 1

(***************************************************************************)
(* Program constants.                                                      *)
(***************************************************************************)
MIN_YEAR == 2022
START_YEAR == 2025
FAIL_CHANCE_MATCH == 40
FAIL_CHANCE_MISMATCH == 60
NORMAL_LIMIT == 90
TOP_AWARDED == 3
PROMOTION_SHARE == 30
BASE_COST == 30000
RANK_BONUS == 10000
EXPERIENCE_BONUS == 2000
AWARDS_BONUS == 5000
PREMIUM_DIVISOR == 5
MIN_PLOTS == 5
MIN_ACTORS == 8

rank_order == <<"BEGINNER", "REGULAR", "LEAD", "MASTER", "HONORED", "PEOPLE">>

\* rank_order.index(rank)
RankIndex(rank) == (CHOOSE i \in 1..Len(rank_order) : rank_order[i] = rank) - 1

(***************************************************************************)
(* Input sets.                                                             *)
(***************************************************************************)
ActorIds == {1, 2}
PlotIds == {1}
PlotArgs == PlotIds \cup {2}
PerfArgs == {1, 2, 3}
StartCapitals == {60}
Budgets == {40, 60, 80}
Costs == {0, 5, 10}
YearArgs == {MIN_YEAR - 1, START_YEAR - 1, START_YEAR}
\* random.random() in hundredths
Rolls == {0, 40, 60, 89, 90}
Draws == 0..QMax
\* the data-layer writes
Writes == {"create_performance", "assign_actor_to_role",
           "update_performance_budget", "complete_performance",
           "update_game_data", "award_actor", "upgrade_actor_rank",
           "update_plot", "delete_plot", "add_actor", "update_actor",
           "delete_actor", "add_plot"}
\* the full names of the actors and the titles of the plots of the sample
\* data, by id
ActorNames ==
    <<"Ivanov", "Petrov", "Sidorova", "Smirnov", "Kozlova", "Morozov",
      "Novikova", "Sokolov", "Popova", "Lebedev">>

PlotTitles ==
    <<"Romeo i Dzhulyetta", "Gamlet", "Chayka", "Vishnevyy sad", "Tri sestry",
      "Otello", "Revizor", "Gore ot uma", "Dyadya Vanya", "Maskarad">>

\* the row of sample actor a with the given rank, awards and experience
Named(a, actor) ==
    [full_name |-> ActorNames[a], rank |-> actor.rank,
     awards_count |-> actor.awards_count, experience |-> actor.experience]

\* the row of sample plot p with the given values
Titled(p, plot) ==
    [title |-> PlotTitles[p], minimum_budget |-> plot.minimum_budget,
     production_cost |-> plot.production_cost, roles_count |-> plot.roles_count,
     demand |-> plot.demand, required_ranks |-> plot.required_ranks]

\* the values of the plots of the model
SamplePlot ==
    [minimum_budget |-> 60, production_cost |-> 50, roles_count |-> 2,
     demand |-> 1, required_ranks |-> <<"BEGINNER", "LEAD">>]
\* arguments of delete_plot_by_id and update_plot
DeleteArgs == {1, 2, 3, 6}
UpdateArgs == {2}
UpdateValues ==
    {Titled(2, [SamplePlot EXCEPT !.production_cost = 70]),
     Titled(2, [SamplePlot EXCEPT !.demand = 11]),
     Titled(2, [minimum_budget |-> 80, production_cost |-> 50, roles_count |-> 3,
                demand |-> 10, required_ranks |-> <<"LEAD", "LEAD", "MASTER">>])}

\* arguments of delete_actor_by_id, update_actor, add_new_actor and
\* add_new_plot
DeleteActorArgs == {1}
UpdateActorArgs == {9}
UpdateActorValues ==
    {Named(9, [rank |-> "MASTER", awards_count |-> 0, experience |-> 0]),
     Named(9, [rank |-> "BEGINNER", awards_count |-> 0 - 1, experience |-> 0])}
AddActorValues ==
    {Named(1, [rank |-> "BEGINNER", awards_count |-> 0, experience |-> 0])}
AddPlotValues == {Titled(1, SamplePlot)}

(***************************************************************************)
(* Helpers.                                                                *)
(***************************************************************************)
Min(a, b) == IF a <= b THEN a ELSE b

Max(a, b) == IF a >= b THEN a ELSE b

\* random.uniform(a, b) = a + (b - a) * random.random(), in hundredths,
\* sampled at the draws q / QMax
Uniform(a, b, q) == a + ((b - a) * q) \div QMax

\* the text PostgreSQL returns for an actor_rank[] value, one token per
\* brace, comma and element: {LEAD,MASTER}
RECURSIVE PgArrayBody(_)
PgArrayBody(ranks) ==
    IF ranks = <<>> THEN <<>>
    ELSE IF Len(ranks) = 1 THEN <<ranks[1]>>
    ELSE <<ranks[1], ",">> \o PgArrayBody(Tail(ranks))

PgArrayText(ranks) == <<"{">> \o PgArrayBody(ranks) \o <<"}">>

\* str.split(','): the fields between the commas; an empty text gives [''].
\* "cur" is the field being read
RECURSIVE SplitComma(_, _)
SplitComma(toks, cur) ==
    IF toks = <<>> THEN <<cur>>
    ELSE IF Head(toks) = "," THEN <<cur>> \o SplitComma(Tail(toks), "")
    ELSE SplitComma(Tail(toks), Head(toks))

\* required_ranks[1:-1].split(',') when the value is text in braces; the
\* rank names hold no quotes for strip('"') to remove
ParseRequiredRanks(text) ==
    IF Len(text) >= 2 /\ text[1] = "{" /\ text[Len(text)] = "}"
    THEN SplitComma(SubSeq(text, 2, Len(text) - 1), "")
    ELSE text

(***************************************************************************)
(* Schema constraints (create_schema).                                     *)
(***************************************************************************)
game_data_check(year, capital) == year >= MIN_YEAR /\ capital >= 0

performances_check(year, budget, revenue) ==
    year >= MIN_YEAR /\ budget > 0 /\ revenue >= 0

actor_performances_check(contract_cost) == contract_cost > 0

plots_check(plot) ==
    /\ plot.minimum_budget > 0
    /\ plot.production_cost > 0
    /\ plot.roles_count >= 1
    /\ plot.demand >= 1 /\ plot.demand <= 10

(***************************************************************************)
(* "last" is the last controller call: the operation, the value it         *)
(* returned (ok; for a settlement the fields of the result dictionary, for *)
(* skip_year year / capital / rights_sale, for calculate_contract_cost     *)
(* contract / premium / total and the actor it was given, for the plot     *)
(* operations ok and the kind of message) and a trace of what it did:      *)
(* failed, the writes the database rejected; written_year and              *)
(* written_capital, the arguments of its update_game_data call; and the    *)
(* intermediate values of a settlement.                                    *)
(***************************************************************************)
NoCall ==
    [op |-> "none", performance_id |-> 0, ok |-> FALSE, failed |-> {},
     revenue |-> 0, budget |-> 0, original_budget |-> 0, saved_budget |-> 0,
     profit |-> 0, awarded_actors |-> <<>>, unexpected_expenses |-> 0,
     total_spent |-> 0, actual_budget |-> 0, actors_match_requirements |-> TRUE,
     fate_roll |-> 0, tier |-> "none", random_factor |-> 0,
     year |-> 0, capital |-> 0, rights_sale |-> 0,
     written_year |-> 0, written_capital |-> 0,
     plot_id |-> 0, message |-> "", actor_id |-> 0,
     actor |-> [rank |-> "BEGINNER", awards_count |-> 0, experience |-> 0],
     contract |-> 0, premium |-> [num |-> 0, den |-> 1],
     total |-> [num |-> 0, den |-> 1]]

\* the sequences after init_sample_data inserted its actors and plots
SampleSequences == [actor_id |-> Len(ActorNames), plot_id |-> Len(PlotTitles)]

\* no dialog is open: the main window takes the user's input
MainWindow == [pc |-> "window"]

Tables ==
    /\ actors = [a \in ActorIds |->
                   Named(a, IF a = 1
                            THEN [rank |-> "PEOPLE", awards_count |-> 1, experience |-> 2]
                            ELSE [rank |-> "BEGINNER", awards_count |-> 0, experience |-> 0])]
    /\ plots = [p \in PlotIds |->
                   Titled(p, [minimum_budget |-> 60, production_cost |-> 50,
                              roles_count |-> 2, demand |-> 1,
                              required_ranks |-> <<"BEGINNER", "LEAD">>])]
    /\ performances = <<[plot_id |-> 1, year |-> START_YEAR - 1, budget |-> 66,
                          revenue |-> 80, is_completed |-> TRUE]>>
    /\ actor_performances = <<(<<[actor_id |-> 1, contract_cost |-> 10],
                                 [actor_id |-> 2, contract_cost |-> 5]>>)>>
    /\ \E c \in StartCapitals : game_data = [current_year |-> START_YEAR, capital |-> c]
    /\ last = NoCall
    /\ sequences = SampleSequences
    /\ dialog = MainWindow

\* a run in which every statement the schema accepts is executed
Init == Tables /\ faulty = "none"

\* the state after a performance of the current year was created with the
\* whole capital and both actors were assigned to it
TablesStaged ==
    /\ actors = [a \in ActorIds |->
                   Named(a, IF a = 1
                            THEN [rank |-> "PEOPLE", awards_count |-> 1, experience |-> 2]
                            ELSE [rank |-> "BEGINNER", awards_count |-> 0, experience |-> 0])]
    /\ plots = [p \in PlotIds |->
                   Titled(p, [minimum_budget |-> 60, production_cost |-> 50,
                              roles_count |-> 2, demand |-> 1,
                              required_ranks |-> <<"BEGINNER", "LEAD">>])]
    /\ performances = <<[plot_id |-> 1, year |-> START_YEAR - 1, budget |-> 66,
                          revenue |-> 80, is_completed |-> TRUE],
                        [plot_id |-> 1, year |-> START_YEAR, budget |-> 60,
                          revenue |-> 0, is_completed |-> FALSE]>>
    /\ \E cost \in [1..2 -> Costs \ {0}] :
          actor_performances =
              <<(<<[actor_id |-> 1, contract_cost |-> 10],
                   [actor_id |-> 2, contract_cost |-> 5]>>),
                [i \in 1..2 |-> [actor_id |-> i, contract_cost |-> cost[i]]]>>
    /\ game_data = [current_year |-> START_YEAR, capital |-> 0]
    /\ last = NoCall
    /\ sequences = SampleSequences
    /\ dialog = MainWindow

\* a run in which the database may reject one of the writes
InitFaults == TablesStaged /\ faulty \in Writes \cup {"none"}

\* the state after a performance of the current year was created and four
\* actors were assigned to it: a larger cast than the award loop rewards,
\* with two actors of equal rank, experience and awards, and a first actor
\* either below or at the highest rank
TablesLargeCast ==
    /\ \E top_rank \in {"MASTER", "PEOPLE"} :
          actors = [a \in 1..4 |->
                   Named(a, IF a = 1
                            THEN [rank |-> top_rank, awards_count |-> 1, experience |-> 2]
                            ELSE IF a = 2
                            THEN [rank |-> "LEAD", awards_count |-> 0, experience |-> 1]
                            ELSE [rank |-> "BEGINNER", awards_count |-> 0, experience |-> 0])]
    /\ plots = [p \in PlotIds |->
                   Titled(p, [minimum_budget |-> 60, production_cost |-> 50,
                              roles_count |-> 4, demand |-> 1,
                              required_ranks |-> <<"BEGINNER", "LEAD">>])]
    /\ performances = <<[plot_id |-> 1, year |-> START_YEAR - 1, budget |-> 66,
                          revenue |-> 80, is_completed |-> TRUE],
                        [plot_id |-> 1, year |-> START_YEAR, budget |-> 60,
                          revenue |-> 0, is_completed |-> FALSE]>>
    /\ \E cost \in [{3, 4} -> Costs \ {0}] :
          actor_performances =
              <<(<<[actor_id |-> 1, contract_cost |-> 10],
                   [actor_id |-> 2, contract_cost |-> 5]>>),
                <<[actor_id |-> 4, contract_cost |-> cost[4]],
                  [actor_id |-> 3, contract_cost |-> cost[3]],
                  [actor_id |-> 2, contract_cost |-> 5],
                  [actor_id |-> 1, contract_cost |-> 10]>>>>
    /\ game_data = [current_year |-> START_YEAR, capital |-> 0]
    /\ last = NoCall
    /\ sequences = SampleSequences
    /\ dialog = MainWindow

InitLargeCast == TablesLargeCast /\ faulty = "none"

\* a theater with no capital and no pending performance, whose two actors
\* have any rank and small numbers of awards and years of experience
TablesRoster ==
    /\ \E roster \in [ActorIds -> [rank : {rank_order[i] : i \in 1..Len(rank_order)},
                                    awards_count : 0..1, experience : 0..1]] :
          actors = [a \in ActorIds |-> Named(a, roster[a])]
    /\ plots = [p \in PlotIds |->
                   Titled(p, [minimum_budget |-> 60, production_cost |-> 50,
                              roles_count |-> 2, demand |-> 1,
                              required_ranks |-> <<"BEGINNER", "LEAD">>])]
    /\ performances = <<[plot_id |-> 1, year |-> START_YEAR - 1, budget |-> 66,
                          revenue |-> 80, is_completed |-> TRUE]>>
    /\ actor_performances = <<(<<[actor_id |-> 1, contract_cost |-> 10],
                                 [actor_id |-> 2, contract_cost |-> 5]>>)>>
    /\ game_data = [current_year |-> START_YEAR, capital |-> 0]
    /\ last = NoCall
    /\ sequences = SampleSequences
    /\ dialog = MainWindow

InitRoster == TablesRoster /\ faulty = "none"

\* a theater with six plots, of which plot 1 and plot 2 have a completed
\* performance and plot 3 a pending one
TablesRepertoire ==
    /\ actors = [a \in ActorIds |->
                   Named(a, IF a = 1
                            THEN [rank |-> "PEOPLE", awards_count |-> 1, experience |-> 2]
                            ELSE [rank |-> "BEGINNER", awards_count |-> 0, experience |-> 0])]
    /\ plots = [p \in 1..6 |-> Titled(p, SamplePlot)]
    /\ performances = <<[plot_id |-> 1, year |-> START_YEAR - 1, budget |-> 66,
                          revenue |-> 80, is_completed |-> TRUE],
                        [plot_id |-> 2, year |-> START_YEAR - 2, budget |-> 66,
                          revenue |-> 80, is_completed |-> TRUE],
                        [plot_id |-> 3, year |-> START_YEAR, budget |-> 60,
                          revenue |-> 0, is_completed |-> FALSE]>>
    /\ actor_performances =
          <<(<<[actor_id |-> 1, contract_cost |-> 10],
               [actor_id |-> 2, contract_cost |-> 5]>>),
            (<<[actor_id |-> 1, contract_cost |-> 10]>>),
            (<<[actor_id |-> 1, contract_cost |-> 10],
               [actor_id |-> 2, contract_cost |-> 5]>>)>>
    /\ game_data = [current_year |-> START_YEAR, capital |-> 0]
    /\ last = NoCall
    /\ sequences = SampleSequences
    /\ dialog = MainWindow

InitRepertoire == TablesRepertoire /\ faulty = "none"

\* a troupe of nine actors and six plots (actor 10 and four plots were
\* deleted): actors 1 and 2 played in the completed performance, actors 9
\* and 1 are cast in the pending one
TablesTroupe ==
    /\ actors = [a \in 1..9 |->
                   Named(a, IF a = 1
                            THEN [rank |-> "PEOPLE", awards_count |-> 1, experience |-> 2]
                            ELSE [rank |-> "BEGINNER", awards_count |-> 0, experience |-> 0])]
    /\ plots = [p \in {1, 3, 4, 5, 7, 8} |-> Titled(p, SamplePlot)]
    /\ performances = <<[plot_id |-> 3, year |-> START_YEAR - 1, budget |-> 66,
                          revenue |-> 80, is_completed |-> TRUE],
                        [plot_id |-> 4, year |-> START_YEAR, budget |-> 60,
                          revenue |-> 0, is_completed |-> FALSE]>>
    /\ actor_performances =
          <<(<<[actor_id |-> 1, contract_cost |-> 10],
               [actor_id |-> 2, contract_cost |-> 5]>>),
            (<<[actor_id |-> 9, contract_cost |-> 5],
               [actor_id |-> 1, contract_cost |-> 10]>>)>>
    /\ game_data = [current_year |-> START_YEAR, capital |-> 0]
    /\ last = NoCall
    /\ sequences = SampleSequences
    /\ dialog = MainWindow

InitTroupe == TablesTroupe /\ faulty = "none"

\* the opening state, with a database that rejects one of the two writes of
\* create_new_performance
InitCreateFaults == Tables /\ faulty \in {"create_performance", "update_game_data"}

(***************************************************************************)
(* Data-layer writes.  "fault" is TRUE when the database raises an error   *)
(* for this statement; the write then leaves the tables as they were.      *)
(***************************************************************************)
update_game_data_ok(year, capital, fault) == ~fault /\ game_data_check(year, capital)

update_game_data(gd, year, capital, fault) ==
    IF update_game_data_ok(year, capital, fault)
    THEN [current_year |-> year, capital |-> capital]
    ELSE gd

\* UPDATE performances SET budget
update_performance_budget_ok(budget, fault) == ~fault /\ budget > 0

update_performance_budget(perfs, performance_id, budget, fault) ==
    IF update_performance_budget_ok(budget, fault)
    THEN [perfs EXCEPT ![performance_id].budget = budget]
    ELSE perfs

\* the constraints of the UPDATE of complete_performance
complete_performance_ok(revenue, fault) == ~fault /\ revenue >= 0

\* the actors with a row of the performance
CastIds(rows) == {rows[i].actor_id : i \in 1..Len(rows)}

\* the completion without the experience of the cast
complete_performance_no_experience(db, performance_id, revenue, fault) ==
    IF complete_performance_ok(revenue, fault)
    THEN [performances |->
              [db.performances EXCEPT ![performance_id].revenue = revenue,
                                      ![performance_id].is_completed = TRUE],
          actors |-> db.actors]
    ELSE [performances |-> db.performances, actors |-> db.actors]

\* an UPDATE of actors without the join on the cast: every actor gains a
\* year of experience
complete_performance_all_actors(db, performance_id, revenue, fault) ==
    IF complete_performance_ok(revenue, fault)
    THEN [performances |->
              [db.performances EXCEPT ![performance_id].revenue = revenue,
                                      ![performance_id].is_completed = TRUE],
          actors |->
              [a \in DOMAIN db.actors |-> [db.actors[a] EXCEPT !.experience = @ + 1]]]
    ELSE [performances |-> db.performances, actors |-> db.actors]

\* one transaction: revenue and is_completed of the performance, and
\* experience + 1 for every actor with a row of this performance
complete_performance(db, performance_id, revenue, fault) ==
    IF complete_performance_ok(revenue, fault)
    THEN [performances |->
              [db.performances EXCEPT ![performance_id].revenue = revenue,
                                      ![performance_id].is_completed = TRUE],
          actors |->
              [a \in DOMAIN db.actors |->
                  IF a \in CastIds(db.actor_performances[performance_id])
                  THEN [db.actors[a] EXCEPT !.experience = @ + 1]
                  ELSE db.actors[a]]]
    ELSE [performances |-> db.performances, actors |-> db.actors]

\* UPDATE actors SET awards_count = awards_count + 1
award_actor(acts, actor_id, fault) ==
    IF fault THEN acts
    ELSE [acts EXCEPT ![actor_id].awards_count = @ + 1]

\* one rank up, read from the stored rank; the highest rank is kept
upgrade_actor_rank(acts, actor_id, fault) ==
    LET rank_idx == RankIndex(acts[actor_id].rank) IN
    IF ~fault /\ rank_idx < Len(rank_order) - 1
    THEN [acts EXCEPT ![actor_id].rank = rank_order[rank_idx + 2]]
    ELSE acts

\* the constraints of INSERT INTO performances
create_performance_ok(perfs, plts, plot_id, year, budget, fault) ==
    /\ ~fault
    /\ performances_check(year, budget, 0)
    /\ plot_id \in DOMAIN plts
    /\ \A i \in 1..Len(perfs) : perfs[i].year # year

\* the insert with the performance stored as completed
create_performance_completed(perfs, plot_id, year, budget) ==
    Append(perfs, [plot_id |-> plot_id, year |-> year, budget |-> budget,
                   revenue |-> 0, is_completed |-> TRUE])

\* INSERT INTO performances ... is_completed FALSE (revenue DEFAULT 0)
create_performance(perfs, plot_id, year, budget) ==
    Append(perfs, [plot_id |-> plot_id, year |-> year, budget |-> budget,
                   revenue |-> 0, is_completed |-> FALSE])

\* only completed performances counted as a use of the plot
PlotInUseCompletedOnly(perfs, plot_id) ==
    \E i \in 1..Len(perfs) : perfs[i].plot_id = plot_id /\ perfs[i].is_completed

\* the plot has a row in performances
PlotInUse(perfs, plot_id) == \E i \in 1..Len(perfs) : perfs[i].plot_id = plot_id

\* DatabaseManager.delete_plot: the tests, then DELETE FROM plots, which the
\* foreign key of performances (ON DELETE RESTRICT) can refuse
delete_plot(plts, perfs, plot_id, fault) ==
    IF PlotInUse(perfs, plot_id)
    THEN [plots |-> plts, ok |-> FALSE, message |-> "in_use"]
    ELSE IF Cardinality(DOMAIN plts) <= MIN_PLOTS
    THEN [plots |-> plts, ok |-> FALSE, message |-> "minimum"]
    ELSE IF fault \/ \E i \in 1..Len(perfs) : perfs[i].plot_id = plot_id
    THEN [plots |-> plts, ok |-> FALSE, message |-> "error"]
    ELSE [plots |-> [p \in DOMAIN plts \ {plot_id} |-> plts[p]],
          ok |-> TRUE, message |-> ""]

\* title ... UNIQUE: another plot has this title
TitleTaken(plts, plot_id, title) ==
    \E p \in DOMAIN plts \ {plot_id} : plts[p].title = title

\* DatabaseManager.update_plot: UPDATE plots ... RETURNING plot_id
update_plot(plts, plot_id, plot, fault) ==
    IF fault \/ (plot_id \in DOMAIN plts
                   /\ (~plots_check(plot) \/ TitleTaken(plts, plot_id, plot.title)))
    THEN [plots |-> plts, ok |-> FALSE, message |-> "error"]
    ELSE IF plot_id \notin DOMAIN plts
    THEN [plots |-> plts, ok |-> FALSE, message |-> "not_found"]
    ELSE [plots |-> [plts EXCEPT ![plot_id] = plot], ok |-> TRUE, message |-> ""]

\* the constraints of a row of actors
actors_check(actor) ==
    /\ actor.awards_count >= 0
    /\ actor.experience >= 0
    /\ \E i \in 1..Len(rank_order) : rank_order[i] = actor.rank

\* actor_full_name_unique: another actor has this full name
NameTaken(acts, actor_id, full_name) ==
    \E a \in DOMAIN acts \ {actor_id} : acts[a].full_name = full_name

\* DatabaseManager.add_actor: INSERT INTO actors ... RETURNING actor_id.  The
\* id is the next value of the sequence; the values that rejected inserts
\* take from the sequence are not counted
add_actor(acts, seq, actor, fault) ==
    IF fault \/ ~actors_check(actor) \/ NameTaken(acts, 0, actor.full_name)
    THEN [actors |-> acts, sequences |-> seq, actor_id |-> 0]
    ELSE [actors |-> [a \in DOMAIN acts \cup {seq.actor_id + 1} |->
                         IF a \in DOMAIN acts THEN acts[a] ELSE actor],
          sequences |-> [seq EXCEPT !.actor_id = @ + 1],
          actor_id |-> seq.actor_id + 1]

\* DatabaseManager.update_actor: UPDATE actors ... RETURNING actor_id
update_actor(acts, actor_id, actor, fault) ==
    IF fault \/ (actor_id \in DOMAIN acts
                   /\ (~actors_check(actor) \/ NameTaken(acts, actor_id, actor.full_name)))
    THEN [actors |-> acts, ok |-> FALSE, message |-> "error"]
    ELSE IF actor_id \notin DOMAIN acts
    THEN [actors |-> acts, ok |-> FALSE, message |-> "not_found"]
    ELSE [actors |-> [acts EXCEPT ![actor_id] = actor], ok |-> TRUE, message |-> ""]

\* the actor has a row of a performance that is not completed
ActorBusy(perfs, ap, actor_id) ==
    \E p \in 1..Len(perfs) : ~perfs[p].is_completed /\ actor_id \in CastIds(ap[p])

\* DELETE FROM actor_performances WHERE actor_id = %s AND performance_id IN
\* (the completed performances)
DeletePastRows(perfs, ap, actor_id) ==
    [p \in 1..Len(ap) |->
        IF perfs[p].is_completed
        THEN SelectSeq(ap[p], LAMBDA row : row.actor_id # actor_id)
        ELSE ap[p]]

\* a deletion that removes every row of the actor and then the actor, with
\* no test of the pending performances
delete_actor_all_rows(acts, perfs, ap, actor_id, fault) ==
    IF Cardinality(DOMAIN acts) <= MIN_ACTORS
    THEN [actors |-> acts, actor_performances |-> ap, ok |-> FALSE,
          message |-> "minimum"]
    ELSE IF fault
    THEN [actors |-> acts, actor_performances |-> ap, ok |-> FALSE,
          message |-> "error"]
    ELSE [actors |-> [a \in DOMAIN acts \ {actor_id} |-> acts[a]],
          actor_performances |->
              [p \in 1..Len(ap) |->
                  SelectSeq(ap[p], LAMBDA row : row.actor_id # actor_id)],
          ok |-> TRUE, message |-> ""]

\* a deletion of the actor that leaves the rows of the actor in place
delete_actor_keep_rows(acts, perfs, ap, actor_id, fault) ==
    IF ActorBusy(perfs, ap, actor_id)
    THEN [actors |-> acts, actor_performances |-> ap, ok |-> FALSE,
          message |-> "busy"]
    ELSE IF Cardinality(DOMAIN acts) <= MIN_ACTORS
    THEN [actors |-> acts, actor_performances |-> ap, ok |-> FALSE,
          message |-> "minimum"]
    ELSE IF fault
    THEN [actors |-> acts, actor_performances |-> ap, ok |-> FALSE,
          message |-> "error"]
    ELSE [actors |-> [a \in DOMAIN acts \ {actor_id} |-> acts[a]],
          actor_performances |-> ap, ok |-> TRUE, message |-> ""]

\* DatabaseManager.delete_actor, one transaction: the two tests, the rows of
\* completed performances deleted, then DELETE FROM actors, which the
\* foreign key of actor_performances (ON DELETE RESTRICT) refuses while a
\* row of the actor is left; an error rolls everything back
delete_actor(acts, perfs, ap, actor_id, fault) ==
    LET rows == DeletePastRows(perfs, ap, actor_id) IN
    IF ActorBusy(perfs, ap, actor_id)
    THEN [actors |-> acts, actor_performances |-> ap, ok |-> FALSE,
          message |-> "busy"]
    ELSE IF Cardinality(DOMAIN acts) <= MIN_ACTORS
    THEN [actors |-> acts, actor_performances |-> ap, ok |-> FALSE,
          message |-> "minimum"]
    ELSE IF fault \/ \E p \in 1..Len(rows) : actor_id \in CastIds(rows[p])
    THEN [actors |-> acts, actor_performances |-> ap, ok |-> FALSE,
          message |-> "error"]
    ELSE [actors |-> [a \in DOMAIN acts \ {actor_id} |-> acts[a]],
          actor_performances |-> rows, ok |-> TRUE, message |-> ""]

\* DatabaseManager.add_plot: INSERT INTO plots ... RETURNING plot_id
add_plot(plts, seq, plot, fault) ==
    IF fault \/ ~plots_check(plot) \/ TitleTaken(plts, 0, plot.title)
    THEN [plots |-> plts, sequences |-> seq, plot_id |-> 0]
    ELSE [plots |-> [p \in DOMAIN plts \cup {seq.plot_id + 1} |->
                        IF p \in DOMAIN plts THEN plts[p] ELSE plot],
          sequences |-> [seq EXCEPT !.plot_id = @ + 1],
          plot_id |-> seq.plot_id + 1]

\* INSERT INTO actor_performances
assign_actor_to_role_ok(acts, perfs, ap, actor_id, performance_id, contract_cost, fault) ==
    /\ ~fault
    /\ actor_performances_check(contract_cost)
    /\ actor_id \in DOMAIN acts
    /\ performance_id \in 1..Len(perfs)
    /\ actor_id \notin CastIds(ap[performance_id])

(***************************************************************************)
(* Reads.                                                                  *)
(***************************************************************************)
\* get_actors_in_performance: the rows of the performance joined with their
\* actors, ORDER BY contract_cost DESC; the order of rows with equal cost is
\* whatever the database produces
get_actors_in_performance(acts, rows) ==
    LET joined == [i \in 1..Len(rows) |->
                      [actor_id |-> rows[i].actor_id,
                       contract_cost |-> rows[i].contract_cost,
                       rank |-> acts[rows[i].actor_id].rank,
                       awards_count |-> acts[rows[i].actor_id].awards_count,
                       experience |-> acts[rows[i].actor_id].experience]]
        ordered == {f \in Permutations(1..Len(rows)) :
                       \A i \in 1..Len(rows) : \A j \in 1..Len(rows) :
                          i < j => joined[f[i]].contract_cost >= joined[f[j]].contract_cost}
    IN {[i \in 1..Len(rows) |-> joined[f[i]]] : f \in ordered}

(***************************************************************************)
(* calculate_performance_result, step by step.                             *)
(***************************************************************************)
\* the sum of a list of numbers
RECURSIVE SeqSum(_)
SeqSum(s) == IF s = <<>> THEN 0 ELSE Head(s) + SeqSum(Tail(s))

RECURSIVE ContractSum(_)
ContractSum(cast) ==
    IF cast = <<>> THEN 0 ELSE Head(cast).contract_cost + ContractSum(Tail(cast))

\* the total with every contract computed again from the rank, experience
\* and awards the actor has at the settlement
TotalSpentRecomputed(plot, cast) ==
    plot.production_cost
    + SeqSum([i \in 1..Len(cast) |->
                 BASE_COST + RankIndex(cast[i].rank) * RANK_BONUS
                           + cast[i].experience * EXPERIENCE_BONUS
                           + cast[i].awards_count * AWARDS_BONUS])

\* total_spent = production_cost + contract costs
TotalSpent(plot, cast) == plot.production_cost + ContractSum(cast)

\* the whole cost taken as the budget that was used
ActualBudgetUncapped(budget, total_spent) == total_spent

\* actual_budget = min(performance['budget'], total_spent)
ActualBudget(budget, total_spent) == Min(budget, total_spent)

SavedBudget(budget, actual_budget) == budget - actual_budget
\* the unexpected expenses drawn from 5% to 25% of the budget used
UnexpectedExpensesWide(actual_budget, q) == (actual_budget * Uniform(5, 25, q)) \div 100

\* int(actual_budget * random.uniform(0.05, 0.15))
UnexpectedExpenses(actual_budget, q) == (actual_budget * Uniform(5, 15, q)) \div 100

\* the loop over enumerate(actors) against required_ranks; the break only
\* ends the loop at the first mismatch
ActorsMatchRequirements(cast, required_ranks) ==
    ~ \E i \in 1..Len(cast) :
         /\ i <= Len(required_ranks)
         /\ \E k \in 1..Len(rank_order) : rank_order[k] = required_ranks[i]
         /\ RankIndex(cast[i].rank) < RankIndex(required_ranks[i])

\* base_revenue = actual_budget * (0.7 + 0.08 * demand), in 1/10000
BaseRevenue(actual_budget, demand) == actual_budget * (70 + 8 * demand) * 100

\* the contribution computed with the experience the settlement leaves
ActorContributionAfter(a) ==
    a.contract_cost * (100 + 15 * RankIndex(a.rank))
                    * (100 + 5 * a.awards_count + 1 * (a.experience + 1))

\* contract_cost * (1 + 0.15 * rank_index) * (1 + 0.05 * awards + 0.01 * exp),
\* in 1/10000
ActorContribution(a) ==
    a.contract_cost * (100 + 15 * RankIndex(a.rank))
                    * (100 + 5 * a.awards_count + 1 * a.experience)

RECURSIVE ActorsBonus(_)
ActorsBonus(cast) ==
    IF cast = <<>> THEN 0 ELSE ActorContribution(Head(cast)) + ActorsBonus(Tail(cast))

FailChance(match) == IF match THEN FAIL_CHANCE_MATCH ELSE FAIL_CHANCE_MISMATCH

\* the tiers with the thresholds taken inclusively
TierInclusive(fate_roll, match) ==
    IF fate_roll <= FailChance(match) THEN "FAILURE"
    ELSE IF fate_roll <= NORMAL_LIMIT THEN "NORMAL"
    ELSE "SUCCESS"

\* fate_roll < fail_chance / elif fate_roll < 0.9 / else
Tier(fate_roll, match) ==
    IF fate_roll < FailChance(match) THEN "FAILURE"
    ELSE IF fate_roll < NORMAL_LIMIT THEN "NORMAL"
    ELSE "SUCCESS"

\* a failure that brings in a twentieth to a tenth of the expected revenue
RandomFactorLow(tier, match, q) ==
    IF tier = "FAILURE"
    THEN Uniform(5, 10, q)
    ELSE IF tier = "NORMAL" THEN Uniform(70, 100, q)
    ELSE Uniform(100, 140, q)

\* random_factor, in hundredths
RandomFactor(tier, match, q) ==
    IF tier = "FAILURE"
    THEN (IF match THEN Uniform(40, 70, q) ELSE Uniform(30, 50, q))
    ELSE IF tier = "NORMAL" THEN Uniform(70, 100, q)
    ELSE Uniform(100, 140, q)

\* int((base_revenue + actors_bonus) * random_factor)
TotalRevenue(base_revenue, actors_bonus, random_factor) ==
    ((base_revenue + actors_bonus) * random_factor) \div 1000000

\* the new capital without the saved budget
SettleCapitalNoSaved(capital, total_revenue, saved_budget, unexpected_expenses) ==
    capital + total_revenue - unexpected_expenses

\* new_capital = capital + total_revenue + saved_budget - unexpected_expenses
SettleCapital(capital, total_revenue, saved_budget, unexpected_expenses) ==
    capital + total_revenue + saved_budget - unexpected_expenses

\* key of the award ordering, compared as Python compares tuples
KeyLess(a, b) ==
    LET ra == RankIndex(a.rank)
        rb == RankIndex(b.rank)
    IN \/ ra < rb
       \/ ra = rb /\ a.experience < b.experience
       \/ ra = rb /\ a.experience = b.experience /\ a.awards_count < b.awards_count

\* sorted(actors, key=..., reverse=True): descending, equal keys keep the
\* order they have in "cast"
SortedActors(cast) ==
    LET f == CHOOSE f \in Permutations(1..Len(cast)) :
                 \A i \in 1..Len(cast) : \A j \in 1..Len(cast) :
                    i < j => \/ KeyLess(cast[f[j]], cast[f[i]])
                             \/ /\ ~KeyLess(cast[f[i]], cast[f[j]])
                                /\ f[i] < f[j]
    IN [i \in 1..Len(cast) |-> cast[f[i]]]

\* every sorted actor taken, with no limit of three
TopAll(sorted_actors) == sorted_actors

\* sorted_actors[:3]
Top(sorted_actors) == SubSeq(sorted_actors, 1, Min(TOP_AWARDED, Len(sorted_actors)))

\* the promotion granted for any profit
PromotionDueAnyProfit(profit, total_expenses) == profit > 0

\* profit > total_expenses * 0.3
PromotionDue(profit, total_expenses) == profit * 100 > total_expenses * PROMOTION_SHARE

\* the loop over sorted_actors[:3], from position i on
RECURSIVE AwardLoop(_, _, _, _)
AwardLoop(acts, top, i, promote) ==
    IF i > Len(top) THEN acts
    ELSE LET awarded == award_actor(acts, top[i].actor_id, faulty = "award_actor")
             upgraded == IF i = 1 /\ promote
                         THEN upgrade_actor_rank(awarded, top[i].actor_id,
                                                 faulty = "upgrade_actor_rank")
                         ELSE awarded
         IN AwardLoop(upgraded, top, i + 1, promote)

(***************************************************************************)
(* Controller operations.                                                  *)
(***************************************************************************)
\* the checks before the insert without the test of the capital
CreateAcceptedNoCapitalTest(plot_id, budget) ==
    /\ plot_id \in DOMAIN plots
    /\ ~(budget < plots[plot_id].minimum_budget)

\* create_new_performance: the checks before the insert
CreateAccepted(plot_id, budget) ==
    /\ ~(game_data.capital < budget)
    /\ plot_id \in DOMAIN plots
    /\ ~(budget < plots[plot_id].minimum_budget)

\* a creation that leaves the capital as it was
CreateCapitalKept(capital, budget) == capital

\* new_capital = game_data['capital'] - budget
CreateCapital(capital, budget) == capital - budget

\* create_new_performance(title, plot_id, year, budget)
create_new_performance(plot_id, year, budget) ==
    LET inserted == create_performance_ok(performances, plots, plot_id, year, budget,
                                          faulty = "create_performance")
        new_capital == CreateCapital(game_data.capital, budget)
        game_fault == faulty = "update_game_data"
        accepted == CreateAccepted(plot_id, budget)
    IN
    /\ IF accepted /\ inserted
       THEN /\ performances' = create_performance(performances, plot_id, year, budget)
            /\ actor_performances' = Append(actor_performances, <<>>)
            /\ game_data' = update_game_data(game_data, year, new_capital, game_fault)
            /\ last' = [NoCall EXCEPT
                           !.op = "create", !.ok = TRUE,
                           !.performance_id = Len(performances) + 1,
                           !.written_year = year,
                           !.written_capital = new_capital,
                           !.failed = IF update_game_data_ok(year, new_capital, game_fault)
                                      THEN {} ELSE {"update_game_data"}]
       ELSE /\ UNCHANGED <<performances, actor_performances, game_data>>
            /\ last' = [NoCall EXCEPT
                           !.op = "create", !.ok = FALSE,
                           !.failed = IF accepted THEN {"create_performance"} ELSE {}]
    /\ UNCHANGED <<actors, plots, faulty, sequences>>

\* assign_actor_to_performance(actor_id, performance_id, role, contract_cost);
\* the rows of a performance are kept in the order they were inserted, which
\* is the order of the role slots in NewPerformanceDialog.create_performance
assign_actor_to_performance(actor_id, performance_id, contract_cost) ==
    LET inserted == assign_actor_to_role_ok(actors, performances, actor_performances,
                                            actor_id, performance_id, contract_cost,
                                            faulty = "assign_actor_to_role")
    IN
    /\ performance_id \in 1..Len(performances) =>
           Len(actor_performances[performance_id]) < MaxCast
    /\ IF inserted
       THEN actor_performances' =
                [actor_performances EXCEPT ![performance_id] =
                    Append(@, [actor_id |-> actor_id, contract_cost |-> contract_cost])]
       ELSE UNCHANGED actor_performances
    /\ last' = [NoCall EXCEPT
                   !.op = "assign", !.ok = inserted,
                   !.performance_id = performance_id,
                   !.failed = IF inserted THEN {} ELSE {"assign_actor_to_role"}]
    /\ UNCHANGED <<actors, plots, performances, game_data, faulty, sequences>>

\* the rights sold for twice the share that was drawn
RightsSaleDoubled(current_capital, u) == (current_capital * 2 * u) \div 100

\* int(current_capital * u), u in hundredths
RightsSale(current_capital, u) == (current_capital * u) \div 100

\* skip_year()
skip_year(q) ==
    LET current_year == game_data.current_year
        current_capital == game_data.capital
        rights_sale == RightsSale(current_capital, Uniform(10, 20, q))
        new_capital == current_capital + rights_sale
        new_year == current_year + 1
        game_fault == faulty = "update_game_data"
    IN
    /\ game_data.current_year < MaxYear
    /\ game_data' = update_game_data(game_data, new_year, new_capital, game_fault)
    /\ last' = [NoCall EXCEPT
                   !.op = "skip", !.ok = TRUE,
                   !.year = new_year, !.capital = new_capital,
                   !.rights_sale = rights_sale,
                   !.written_year = new_year,
                   !.written_capital = new_capital,
                   !.failed = IF update_game_data_ok(new_year, new_capital, game_fault)
                              THEN {} ELSE {"update_game_data"}]
    /\ UNCHANGED <<actors, plots, performances, actor_performances, faulty, sequences>>

\* the contract with the bonuses of experience and awards exchanged
ContractCostExchanged(actor) ==
    BASE_COST + RankIndex(actor.rank) * RANK_BONUS
              + actor.experience * AWARDS_BONUS + actor.awards_count * EXPERIENCE_BONUS

\* contract_cost = base_cost + rank_bonus + experience_bonus + awards_bonus
ContractCost(actor) ==
    BASE_COST + RankIndex(actor.rank) * RANK_BONUS
              + actor.experience * EXPERIENCE_BONUS + actor.awards_count * AWARDS_BONUS

\* a premium that does not depend on the contract
PremiumFixed(contract_cost) == [num |-> BASE_COST, den |-> PREMIUM_DIVISOR]

\* premium = contract_cost / 5: true division, kept as a fraction
Premium(contract_cost) == [num |-> contract_cost, den |-> PREMIUM_DIVISOR]

\* contract_cost + premium
ContractTotal(contract_cost, premium) ==
    [num |-> contract_cost * premium.den + premium.num, den |-> premium.den]

\* calculate_contract_cost(actor)
calculate_contract_cost(actor) ==
    LET contract_cost == ContractCost(actor)
        premium == Premium(contract_cost)
    IN
    /\ last' = [NoCall EXCEPT
                   !.op = "contract_cost", !.ok = TRUE,
                   !.actor = [rank |-> actor.rank, awards_count |-> actor.awards_count,
                              experience |-> actor.experience],
                   !.contract = contract_cost, !.premium = premium,
                   !.total = ContractTotal(contract_cost, premium)]
    /\ UNCHANGED <<actors, plots, performances, actor_performances, game_data, faulty, sequences>>

\* TheaterController.delete_plot_by_id(plot_id)
delete_plot_by_id(plot_id) ==
    LET result == delete_plot(plots, performances, plot_id, faulty = "delete_plot") IN
    /\ plots' = result.plots
    /\ last' = [NoCall EXCEPT
                   !.op = "delete_plot", !.ok = result.ok, !.plot_id = plot_id,
                   !.message = result.message,
                   !.failed = IF result.message = "error" THEN {"delete_plot"} ELSE {}]
    /\ UNCHANGED <<actors, performances, actor_performances, game_data, faulty, sequences>>

\* TheaterController.update_plot(plot_id, title, minimum_budget, ...)
controller_update_plot(plot_id, plot) ==
    LET result == update_plot(plots, plot_id, plot, faulty = "update_plot") IN
    /\ plots' = result.plots
    /\ last' = [NoCall EXCEPT
                   !.op = "update_plot", !.ok = result.ok, !.plot_id = plot_id,
                   !.message = result.message,
                   !.failed = IF result.message = "error" THEN {"update_plot"} ELSE {}]
    /\ UNCHANGED <<actors, performances, actor_performances, game_data, faulty, sequences>>

\* TheaterController.add_new_actor(last_name, ..., experience): the id of the
\* new actor, or None
add_new_actor(actor) ==
    LET result == add_actor(actors, sequences, actor, faulty = "add_actor") IN
    /\ actors' = result.actors
    /\ sequences' = result.sequences
    /\ last' = [NoCall EXCEPT
                   !.op = "add_actor", !.ok = result.actor_id # 0,
                   !.actor_id = result.actor_id,
                   !.failed = IF result.actor_id = 0 THEN {"add_actor"} ELSE {}]
    /\ UNCHANGED <<plots, performances, actor_performances, game_data, faulty>>

\* TheaterController.update_actor(actor_id, last_name, ..., experience)
controller_update_actor(actor_id, actor) ==
    LET result == update_actor(actors, actor_id, actor, faulty = "update_actor") IN
    /\ actors' = result.actors
    /\ last' = [NoCall EXCEPT
                   !.op = "update_actor", !.ok = result.ok, !.actor_id = actor_id,
                   !.message = result.message,
                   !.failed = IF result.message = "error" THEN {"update_actor"} ELSE {}]
    /\ UNCHANGED <<plots, performances, actor_performances, game_data, faulty,
                   sequences>>

\* TheaterController.delete_actor_by_id(actor_id)
delete_actor_by_id(actor_id) ==
    LET result == delete_actor(actors, performances, actor_performances, actor_id,
                               faulty = "delete_actor")
    IN
    /\ actors' = result.actors
    /\ actor_performances' = result.actor_performances
    /\ last' = [NoCall EXCEPT
                   !.op = "delete_actor", !.ok = result.ok, !.actor_id = actor_id,
                   !.message = result.message,
                   !.failed = IF result.message = "error" THEN {"delete_actor"} ELSE {}]
    /\ UNCHANGED <<plots, performances, game_data, faulty, sequences>>

\* TheaterController.add_new_plot(title, ..., required_ranks): the id of the
\* new plot, or None
add_new_plot(plot) ==
    LET result == add_plot(plots, sequences, plot, faulty = "add_plot") IN
    /\ plots' = result.plots
    /\ sequences' = result.sequences
    /\ last' = [NoCall EXCEPT
                   !.op = "add_plot", !.ok = result.plot_id # 0,
                   !.plot_id = result.plot_id,
                   !.failed = IF result.plot_id = 0 THEN {"add_plot"} ELSE {}]
    /\ UNCHANGED <<actors, performances, actor_performances, game_data, faulty>>

\* the early return without the test of is_completed
SettleRejectedNotFoundOnly(performance_id) ==
    performance_id \notin 1..Len(performances)

\* calculate_performance_result(performance_id): the early return
SettleRejected(performance_id) ==
    \/ performance_id \notin 1..Len(performances)
    \/ performances[performance_id].is_completed

\* calculate_performance_result(performance_id), past the early return.
\* "cast" is the list get_actors_in_performance returned, fate_roll and the
\* two q are the draws
SettleBody(performance_id, cast, fate_roll, q_unexpected, q_factor) ==
    LET performance == performances[performance_id]
        plot == plots[performance.plot_id]
        total_spent == TotalSpent(plot, cast)
        actual_budget == ActualBudget(performance.budget, total_spent)
        saved_budget == SavedBudget(performance.budget, actual_budget)
        base_revenue == BaseRevenue(actual_budget, plot.demand)
        unexpected_expenses == UnexpectedExpenses(actual_budget, q_unexpected)
        required_ranks == ParseRequiredRanks(PgArrayText(plot.required_ranks))
        match == ActorsMatchRequirements(cast, required_ranks)
        actors_bonus == ActorsBonus(cast)
        tier == Tier(fate_roll, match)
        random_factor == RandomFactor(tier, match, q_factor)
        total_revenue == TotalRevenue(base_revenue, actors_bonus, random_factor)
        total_expenses == actual_budget + unexpected_expenses
        profit == total_revenue - total_expenses
        budget_fault == faulty = "update_performance_budget"
        complete_fault == faulty = "complete_performance"
        game_fault == faulty = "update_game_data"
        perfs1 == update_performance_budget(performances, performance_id,
                                            total_expenses, budget_fault)
        db2 == complete_performance(
                   [performances |-> perfs1, actors |-> actors,
                    actor_performances |-> actor_performances],
                   performance_id, total_revenue, complete_fault)
        new_capital == SettleCapital(game_data.capital, total_revenue,
                                     saved_budget, unexpected_expenses)
        current_year == game_data.current_year + 1
        top == IF profit > 0 THEN Top(SortedActors(cast)) ELSE <<>>
        promote == PromotionDue(profit, total_expenses)
        failed ==
            (IF update_performance_budget_ok(total_expenses, budget_fault)
             THEN {} ELSE {"update_performance_budget"})
            \cup (IF complete_performance_ok(total_revenue, complete_fault)
                  THEN {} ELSE {"complete_performance"})
            \cup (IF update_game_data_ok(current_year, new_capital, game_fault)
                  THEN {} ELSE {"update_game_data"})
            \cup (IF Len(top) >= 1 /\ faulty = "award_actor"
                  THEN {"award_actor"} ELSE {})
            \cup (IF Len(top) >= 1 /\ promote /\ faulty = "upgrade_actor_rank"
                  THEN {"upgrade_actor_rank"} ELSE {})
    IN
    /\ performances' = db2.performances
    /\ game_data' = update_game_data(game_data, current_year, new_capital, game_fault)
    /\ actors' = AwardLoop(db2.actors, top, 1, promote)
    /\ last' = [NoCall EXCEPT
                   !.op = "settle", !.ok = TRUE,
                   !.performance_id = performance_id,
                   !.failed = failed,
                   !.revenue = total_revenue,
                   !.budget = total_expenses,
                   !.original_budget = performance.budget,
                   !.saved_budget = saved_budget,
                   !.profit = profit,
                   !.awarded_actors = [i \in 1..Len(top) |-> top[i].actor_id],
                   !.unexpected_expenses = unexpected_expenses,
                   !.total_spent = total_spent,
                   !.actual_budget = actual_budget,
                   !.actors_match_requirements = match,
                   !.fate_roll = fate_roll,
                   !.tier = tier,
                   !.random_factor = random_factor,
                   !.written_year = current_year,
                   !.written_capital = new_capital]
    /\ UNCHANGED <<plots, actor_performances, faulty, sequences>>

calculate_performance_result(performance_id, fate_roll, q_unexpected, q_factor) ==
    IF SettleRejected(performance_id)
    THEN /\ last' = [NoCall EXCEPT !.op = "settle", !.ok = FALSE,
                                   !.performance_id = performance_id]
         /\ UNCHANGED <<actors, plots, performances, actor_performances, game_data,
                        faulty, sequences>>
    ELSE /\ game_data.current_year <= MaxYear
         /\ \E cast \in get_actors_in_performance(
                            actors, actor_performances[performance_id]) :
                SettleBody(performance_id, cast, fate_roll, q_unexpected, q_factor)

Create ==
    /\ \E plot_id \in PlotArgs, year \in YearArgs, budget \in Budgets :
          create_new_performance(plot_id, year, budget)
    /\ UNCHANGED dialog

Assign ==
    /\ \E actor_id \in ActorIds, performance_id \in PerfArgs, contract_cost \in Costs :
          assign_actor_to_performance(actor_id, performance_id, contract_cost)
    /\ UNCHANGED dialog

Settle ==
    /\ \E performance_id \in PerfArgs :
          IF SettleRejected(performance_id)
          THEN calculate_performance_result(performance_id, 0, 0, 0)
          ELSE \E fate_roll \in Rolls, q_unexpected \in Draws, q_factor \in Draws :
                   calculate_performance_result(performance_id, fate_roll,
                                                q_unexpected, q_factor)
    /\ UNCHANGED dialog

SkipYear == (\E q \in Draws : skip_year(q)) /\ UNCHANGED dialog

\* the cost of the contract of an actor of the roster
CalculateContractCost ==
    /\ \E a \in DOMAIN actors : calculate_contract_cost(actors[a])
    /\ UNCHANGED dialog

DeletePlot == (\E plot_id \in DeleteArgs : delete_plot_by_id(plot_id)) /\ UNCHANGED dialog

UpdatePlot ==
    /\ \E plot_id \in UpdateArgs, plot \in UpdateValues :
          controller_update_plot(plot_id, plot)
    /\ UNCHANGED dialog

AddActor == (\E actor \in AddActorValues : add_new_actor(actor)) /\ UNCHANGED dialog

UpdateActor ==
    /\ \E actor_id \in UpdateActorArgs, actor \in UpdateActorValues :
          controller_update_actor(actor_id, actor)
    /\ UNCHANGED dialog

DeleteActor ==
    (\E actor_id \in DeleteActorArgs : delete_actor_by_id(actor_id)) /\ UNCHANGED dialog

AddPlot == (\E plot \in AddPlotValues : add_new_plot(plot)) /\ UNCHANGED dialog

Next ==
    \/ Create
    \/ Assign
    \/ Settle
    \/ SkipYear
    \/ CalculateContractCost
    \/ DeletePlot
    \/ UpdatePlot
    \/ AddActor
    \/ UpdateActor
    \/ DeleteActor
    \/ AddPlot

Spec == Init /\ [][Next]_vars

SpecFaults == InitFaults /\ [][Next]_vars

SpecLargeCast == InitLargeCast /\ [][Next]_vars

SpecRoster == InitRoster /\ [][Next]_vars

SpecRepertoire == InitRepertoire /\ [][Next]_vars

SpecTroupe == InitTroupe /\ [][Next]_vars

SpecCreateFaults == InitCreateFaults /\ [][Next]_vars

(***************************************************************************)
(* The user interface: the main window and the modal NewPerformanceDialog. *)
(* The handler NewPerformanceDialog.create_performance is taken one        *)
(* controller call at a time, so that what may run between two of its      *)
(* calls is decided by the guards of the other actions.                    *)
(***************************************************************************)
\* the role frames of the dialog: an actor and the contract cost shown for
\* it, for every role of the plot
RolesData(roles_count) ==
    {roles \in [1..roles_count -> [actor_id : ActorIds, contract_cost : Costs \ {0}]] :
        \A i \in 1..roles_count : \A j \in 1..roles_count :
           i # j => roles[i].actor_id # roles[j].actor_id}

\* a main window that takes input while a dialog is shown
WindowEnabledAlways(d) == TRUE

\* dialog.exec() shows the dialog modally and returns when it is closed: the
\* main window takes input only while no dialog is shown
WindowEnabled(d) == d.pc = "window"

\* MainWindow.open_new_show_dialog: NewPerformanceDialog.__init__ reads the
\* game state, then exec()
OpenNewShowDialog ==
    /\ WindowEnabled(dialog)
    /\ dialog' = [pc |-> "dialog", game_data |-> game_data]
    /\ UNCHANGED <<actors, plots, performances, actor_performances, game_data,
                   last, faulty, sequences>>

\* the Cancel button: reject()
CancelDialog ==
    /\ dialog.pc = "dialog"
    /\ dialog' = MainWindow
    /\ UNCHANGED <<actors, plots, performances, actor_performances, game_data,
                   last, faulty, sequences>>

\* NewPerformanceDialog.create_performance up to the call of
\* create_new_performance: the tests of the form, which return with a
\* warning, then the call with the year the dialog read when it was opened
DialogCreate ==
    /\ dialog.pc = "dialog"
    /\ \E plot_id \in DOMAIN plots, budget \in Budgets :
          \E roles_data \in RolesData(plots[plot_id].roles_count) :
             LET remaining_budget ==
                     budget - plots[plot_id].production_cost
                            - SeqSum([i \in 1..Len(roles_data) |->
                                         roles_data[i].contract_cost])
             IN /\ ~(budget > dialog.game_data.capital)
                /\ ~(budget < plots[plot_id].minimum_budget)
                /\ ~(remaining_budget < 0)
                /\ create_new_performance(plot_id, dialog.game_data.current_year, budget)
                /\ dialog' = IF last'.ok
                             THEN [pc |-> "assign", game_data |-> dialog.game_data,
                                   performance_id |-> last'.performance_id,
                                   roles_data |-> roles_data,
                                   capital_before |-> game_data.capital]
                             ELSE dialog

\* one turn of the loop over roles_data
DialogAssign ==
    /\ dialog.pc = "assign"
    /\ dialog.roles_data # <<>>
    /\ assign_actor_to_performance(Head(dialog.roles_data).actor_id,
                                   dialog.performance_id,
                                   Head(dialog.roles_data).contract_cost)
    /\ dialog' = [dialog EXCEPT !.roles_data = Tail(@)]

\* the end of the handler: calculate_performance_result, the results shown,
\* accept()
DialogSettle ==
    /\ dialog.pc = "assign"
    /\ dialog.roles_data = <<>>
    /\ \E fate_roll \in Rolls, q_unexpected \in Draws, q_factor \in Draws :
          calculate_performance_result(dialog.performance_id, fate_roll,
                                       q_unexpected, q_factor)
    /\ dialog' = IF last'.ok THEN MainWindow
                 ELSE [pc |-> "dialog", game_data |-> dialog.game_data]

\* MainWindow.skip_year, confirmed by the user
WindowSkipYear ==
    /\ WindowEnabled(dialog)
    /\ \E q \in Draws : skip_year(q)
    /\ UNCHANGED dialog

NextGui ==
    \/ OpenNewShowDialog
    \/ CancelDialog
    \/ DialogCreate
    \/ DialogAssign
    \/ DialogSettle
    \/ WindowSkipYear

SpecGui == Init /\ [][NextGui]_vars

(***************************************************************************)
(* Properties.                                                             *)
(***************************************************************************)
Completed(p) == p \in 1..Len(performances) /\ performances[p].is_completed

\* C1: a settlement called with a performance id that does not exist, or
\* with a performance that is already completed, returns failure and leaves
\* every performance, every actor and the game state as they were.
C1_RejectedSettlementChangesNothing ==
    [][(/\ last'.op = "settle"
        /\ \/ last'.performance_id \notin 1..Len(performances)
           \/ performances[last'.performance_id].is_completed)
       => /\ ~last'.ok
          /\ performances' = performances
          /\ actors' = actors
          /\ game_data' = game_data]_vars

\* a settlement of a completed performance has just been refused
C1_Witness ==
    /\ last.op = "settle"
    /\ ~last.ok
    /\ Completed(last.performance_id)
    /\ performances[last.performance_id].revenue > 0

\* C2: a performance is created pending, becomes completed only in a
\* settlement of that performance, never becomes pending again, and a
\* settlement of a completed performance changes neither its revenue nor the
\* game state.
C2_CompletedOnce ==
    [][/\ Len(performances') >= Len(performances)
       /\ \A p \in 1..Len(performances') :
             IF p > Len(performances)
             THEN ~performances'[p].is_completed
             ELSE /\ performances[p].is_completed => performances'[p].is_completed
                  /\ (~performances[p].is_completed /\ performances'[p].is_completed)
                        => /\ last'.op = "settle"
                           /\ last'.ok
                           /\ last'.performance_id = p
                  /\ (performances[p].is_completed /\ last'.op = "settle"
                         /\ last'.performance_id = p)
                        => /\ performances'[p].revenue = performances[p].revenue
                           /\ game_data' = game_data]_vars

\* a settlement has just completed a performance
C2_Witness ==
    /\ last.op = "settle"
    /\ last.ok
    /\ Completed(last.performance_id)
    /\ performances[last.performance_id].revenue = last.revenue

\* C3: the stored capital is never negative, and neither is any capital the
\* controller asks the database to store.
C3_CapitalNonNegative ==
    /\ game_data.capital >= 0
    /\ (last.op \in {"create", "settle", "skip"} /\ last.ok)
          => last.written_capital >= 0

\* a creation has just spent the whole capital
C3_Witness ==
    /\ last.op = "create"
    /\ last.ok
    /\ game_data.capital = 0

\* a settlement that got past the early return has just run
Settled == last.op = "settle" /\ last.ok

\* C6: a settlement whose writes all succeeded leaves capital = capital
\* before + revenue + saved budget - unexpected expenses and year = year
\* before + 1, both counted from the stored game state.
C6_GameStateUpdate ==
    [][(last'.op = "settle" /\ last'.ok /\ last'.failed = {})
       => /\ game_data'.capital = game_data.capital + last'.revenue
                                  + last'.saved_budget - last'.unexpected_expenses
          /\ game_data'.current_year = game_data.current_year + 1]_vars

\* a settlement with a saved budget and unexpected expenses has been stored
C6_Witness ==
    /\ Settled
    /\ last.failed = {}
    /\ last.saved_budget > 0
    /\ last.unexpected_expenses > 0
    /\ last.revenue > 0
    /\ game_data.capital = last.written_capital

\* C7: in every settlement total cost = production cost + contract costs of
\* the cast, actual budget = min(budget, total cost), saved budget = budget -
\* actual budget = max(0, budget - total cost) >= 0, and actual budget +
\* saved budget = the budget the performance had.
C7_BudgetSplit ==
    [][(last'.op = "settle" /\ last'.ok)
       => LET p == last'.performance_id
              budget == performances[p].budget
              rows == actor_performances[p]
              total_cost == plots[performances[p].plot_id].production_cost
                            + SeqSum([i \in 1..Len(rows) |-> rows[i].contract_cost])
          IN /\ last'.total_spent = total_cost
             /\ last'.actual_budget = Min(budget, total_cost)
             /\ last'.saved_budget = budget - last'.actual_budget
             /\ last'.saved_budget = Max(0, budget - total_cost)
             /\ last'.saved_budget >= 0
             /\ last'.original_budget = budget
             /\ last'.actual_budget + last'.saved_budget = last'.original_budget]_vars

\* a settlement of a cast that costs more than the budget
C7_Witness ==
    /\ Settled
    /\ Len(actor_performances[last.performance_id]) = 2
    /\ last.total_spent > last.original_budget
    /\ last.saved_budget = 0

\* C9: with threshold 0.4 for a compliant cast and 0.6 otherwise, r below the
\* threshold gives FAILURE with a multiplier in [0.4, 0.7] (compliant) or
\* [0.3, 0.5]; threshold <= r < 0.9 gives NORMAL with a multiplier in
\* [0.7, 1.0]; r >= 0.9 gives SUCCESS with a multiplier in [1.0, 1.4]; so the
\* multiplier is in [0.3, 1.4], and a roll that fails a compliant cast fails
\* a non-compliant one.
C9_Tiers ==
    Settled =>
        LET r == last.fate_roll
            m == last.random_factor
            threshold == IF last.actors_match_requirements THEN 40 ELSE 60
        IN /\ r < threshold =>
                 /\ last.tier = "FAILURE"
                 /\ IF last.actors_match_requirements
                    THEN 40 <= m /\ m <= 70
                    ELSE 30 <= m /\ m <= 50
           /\ (threshold <= r /\ r < 90) =>
                 (last.tier = "NORMAL" /\ 70 <= m /\ m <= 100)
           /\ r >= 90 => (last.tier = "SUCCESS" /\ 100 <= m /\ m <= 140)
           /\ 30 <= m /\ m <= 140
           /\ r < 40 => last.tier = "FAILURE"

\* a non-compliant cast with the roll on the threshold of a compliant one
C9_Witness ==
    /\ Settled
    /\ ~last.actors_match_requirements
    /\ last.fate_roll = 40
    /\ last.tier = "FAILURE"
    /\ last.random_factor = 50

\* C10: revenue = floor((base revenue + bonus) * multiplier), base revenue =
\* actual budget * (0.7 + 0.08 * demand), bonus = sum over the cast of
\* contract cost * (1 + 0.15 * rank index) * (1 + 0.05 * awards + 0.01 *
\* experience) with the actors as they were before the settlement; revenue
\* is never negative.  Amounts are in 1/10000, the multiplier in 1/100.
C10_Revenue ==
    [][(last'.op = "settle" /\ last'.ok)
       => LET p == last'.performance_id
              plot == plots[performances[p].plot_id]
              rows == actor_performances[p]
              total_cost == plot.production_cost
                            + SeqSum([i \in 1..Len(rows) |-> rows[i].contract_cost])
              actual_budget == Min(performances[p].budget, total_cost)
              base_revenue == actual_budget * (7000 + 800 * plot.demand)
              bonus == SeqSum([i \in 1..Len(rows) |->
                          LET a == actors[rows[i].actor_id]
                              k == CHOOSE k \in 0..5 : rank_order[k + 1] = a.rank
                          IN rows[i].contract_cost * (100 + 15 * k)
                               * (100 + 5 * a.awards_count + a.experience)])
              product == (base_revenue + bonus) * last'.random_factor
          IN /\ last'.revenue * 1000000 <= product
             /\ product < (last'.revenue + 1) * 1000000
             /\ last'.revenue >= 0]_vars

\* a stored settlement with an experienced actor in the cast and a profit
C10_Witness ==
    /\ Settled
    /\ last.failed = {}
    /\ \E i \in 1..Len(actor_performances[last.performance_id]) :
          actors[actor_performances[last.performance_id][i].actor_id].experience >= 3
    /\ last.revenue > last.budget
    /\ performances[last.performance_id].revenue = last.revenue

\* C4: when a write of a settlement fails, none of the settlement's effects
\* is stored: performances, actors and game state stay as they were.
C4_AllOrNothing ==
    [][(last'.op = "settle" /\ last'.failed # {})
       => /\ performances' = performances
          /\ actors' = actors
          /\ game_data' = game_data]_vars

\* C5: a settlement returns success only when every write it issued
\* succeeded.
C5_FailureSurfaced == (last.op = "settle" /\ last.failed # {}) => ~last.ok

\* C8: the compliance flag is false exactly when some role slot i with a
\* declared minimum rank holds an actor of a lower rank, slot i being the
\* i-th actor assigned to the performance.
C8_SlotCompliance ==
    [][(last'.op = "settle" /\ last'.ok)
       => LET rows == actor_performances[last'.performance_id]
              required == plots[performances[last'.performance_id].plot_id].required_ranks
              Declared(i) == i <= Len(required)
                             /\ \E k \in 1..Len(rank_order) : rank_order[k] = required[i]
          IN last'.actors_match_requirements
             <=> ~ \E i \in 1..Len(rows) :
                      /\ Declared(i)
                      /\ RankIndex(actors[rows[i].actor_id].rank)
                            < RankIndex(required[i])]_vars

\* C11: in every settlement unexpected expenses = floor(actual budget * u)
\* for a u in [0.05, 0.15], total expenses = actual budget + unexpected
\* expenses, profit = revenue - total expenses, the returned budget is the
\* total expenses and the returned original budget is the budget the
\* performance had before.
C11_Expenses ==
    [][(last'.op = "settle" /\ last'.ok)
       => LET p == last'.performance_id
              rows == actor_performances[p]
              total_cost == plots[performances[p].plot_id].production_cost
                            + SeqSum([i \in 1..Len(rows) |-> rows[i].contract_cost])
              actual_budget == Min(performances[p].budget, total_cost)
          IN /\ \E u \in 5..15 :
                   last'.unexpected_expenses = (actual_budget * u) \div 100
             /\ last'.budget = actual_budget + last'.unexpected_expenses
             /\ last'.profit = last'.revenue - last'.budget
             /\ last'.original_budget = performances[p].budget]_vars

\* a settlement with the largest unexpected expenses and a loss
C11_Witness ==
    /\ Settled
    /\ last.actual_budget = 60
    /\ last.unexpected_expenses = 9
    /\ last.budget = 69
    /\ last.profit < 0

\* C12: after a settlement of p whose writes all succeeded, the stored
\* budget of p is the total expenses, p is completed, the stored revenue of
\* p is the computed revenue, and every actor of p's cast has exactly one
\* more year of experience than before.
C12_Persisted ==
    [][(last'.op = "settle" /\ last'.ok /\ last'.failed = {})
       => LET p == last'.performance_id
              rows == actor_performances[p]
          IN /\ performances'[p].budget = last'.actual_budget + last'.unexpected_expenses
             /\ performances'[p].is_completed
             /\ performances'[p].revenue = last'.revenue
             /\ \A i \in 1..Len(rows) :
                   actors'[rows[i].actor_id].experience
                      = actors[rows[i].actor_id].experience + 1]_vars

\* a stored settlement of a cast of two whose expenses differ from the budget
C12_Witness ==
    /\ Settled
    /\ last.failed = {}
    /\ Len(actor_performances[last.performance_id]) = 2
    /\ performances[last.performance_id].budget = last.budget
    /\ last.budget # last.original_budget
    /\ \A a \in ActorIds : actors[a].experience >= 1

\* (rank index, experience, awards count) of actor a is below that of b
KeyBelow(acts, a, b) ==
    LET ka == CHOOSE k \in 0..5 : rank_order[k + 1] = acts[a].rank
        kb == CHOOSE k \in 0..5 : rank_order[k + 1] = acts[b].rank
    IN \/ ka < kb
       \/ ka = kb /\ acts[a].experience < acts[b].experience
       \/ /\ ka = kb
          /\ acts[a].experience = acts[b].experience
          /\ acts[a].awards_count < acts[b].awards_count

\* C13: when profit > 0 the returned awarded actors are min(3, cast size)
\* members of the cast, none of them below a member left out, listed in
\* descending order of (rank index, experience, awards count), and exactly
\* they gain exactly one award; when profit <= 0 the list is empty and no
\* award count changes.
C13_Awards ==
    [][(last'.op = "settle" /\ last'.ok /\ last'.failed = {})
       => LET rows == actor_performances[last'.performance_id]
              cast == {rows[i].actor_id : i \in 1..Len(rows)}
              list == last'.awarded_actors
              awarded == {list[i] : i \in 1..Len(list)}
          IN /\ awarded \subseteq cast
             /\ Cardinality(awarded) = Len(list)
             /\ \A a \in DOMAIN actors :
                   actors'[a].awards_count
                      = actors[a].awards_count + (IF a \in awarded THEN 1 ELSE 0)
             /\ IF last'.profit > 0
                THEN /\ Len(list) = Min(3, Cardinality(cast))
                     /\ \A a \in awarded : \A b \in cast \ awarded :
                           ~KeyBelow(actors, a, b)
                     /\ \A i \in 1..Len(list) : \A j \in 1..Len(list) :
                           i < j => ~KeyBelow(actors, list[i], list[j])
                ELSE list = <<>>]_vars

\* a profitable settlement of a cast of four: three awarded, one left out
C13_Witness ==
    /\ Settled
    /\ last.failed = {}
    /\ last.profit > 0
    /\ Len(actor_performances[last.performance_id]) = 4
    /\ Len(last.awarded_actors) = 3
    /\ last.awarded_actors[1] = 1
    /\ actors[1].awards_count = 2
    /\ \E a \in {3, 4} : actors[a].awards_count = 0

\* C14: in a settlement the first actor of the award ordering goes up
\* exactly one rank if and only if profit > 0, profit > 30% of the total
\* expenses and the actor is below the highest rank; an actor at the highest
\* rank keeps it and no other rank changes.
C14_Promotion ==
    [][(last'.op = "settle" /\ last'.ok /\ last'.failed = {})
       => LET rows == actor_performances[last'.performance_id]
              cast == {rows[i].actor_id : i \in 1..Len(rows)}
              Index(acts, a) == CHOOSE k \in 0..5 : rank_order[k + 1] = acts[a].rank
              due == /\ last'.profit > 0
                     /\ 10 * last'.profit > 3 * last'.budget
                     /\ cast # {}
          IN /\ due => /\ last'.awarded_actors # <<>>
                       /\ \A b \in cast : ~KeyBelow(actors, last'.awarded_actors[1], b)
             /\ \A a \in DOMAIN actors :
                   Index(actors', a) =
                       IF due /\ a = last'.awarded_actors[1] /\ Index(actors, a) < 5
                       THEN Index(actors, a) + 1
                       ELSE Index(actors, a)
             /\ Cardinality({a \in DOMAIN actors : actors'[a].rank # actors[a].rank}) <= 1]_vars

\* the first actor of the award ordering has gone up from MASTER to HONORED
\* and the second keeps its rank
C14_Witness ==
    /\ Settled
    /\ last.failed = {}
    /\ 10 * last.profit > 3 * last.budget
    /\ last.awarded_actors[1] = 1
    /\ actors[1].rank = "HONORED"
    /\ last.awarded_actors[2] = 2
    /\ actors[2].rank = "LEAD"

\* C15: for an actor with rank index r, experience e and awards a,
\* calculate_contract_cost returns contract = 30000 + 10000 r + 2000 e +
\* 5000 a, premium = contract / 5 and total = contract + premium, so that
\* 5 total = 6 contract, and it changes no table.
C15_ContractCost ==
    [][last'.op = "contract_cost"
       => LET r == CHOOSE k \in 0..5 : rank_order[k + 1] = last'.actor.rank
              contract == 30000 + 10000 * r + 2000 * last'.actor.experience
                                + 5000 * last'.actor.awards_count
          IN /\ last'.ok
             /\ last'.contract = contract
             /\ 5 * last'.premium.num = contract * last'.premium.den
             /\ last'.total.num * last'.premium.den
                   = (contract * last'.premium.den + last'.premium.num) * last'.total.den
             /\ 5 * last'.total.num = 6 * contract * last'.total.den
             /\ UNCHANGED <<actors, plots, performances, actor_performances,
                            game_data>>]_vars

\* the contract of a MASTER with one award and one year of experience
C15_Witness ==
    /\ last.op = "contract_cost"
    /\ last.actor = [rank |-> "MASTER", awards_count |-> 1, experience |-> 1]
    /\ last.contract = 67000
    /\ last.premium.num = 13400 * last.premium.den
    /\ last.total.num = 80400 * last.total.den

\* C16: of two calls of calculate_contract_cost whose actors differ in
\* exactly one of rank index, experience and awards count, the call with the
\* larger value returns the larger contract, the larger premium and the
\* larger total.
C16_StrictlyIncreasing ==
    [][(last.op = "contract_cost" /\ last'.op = "contract_cost")
       => LET x == last.actor
              y == last'.actor
              rx == CHOOSE k \in 0..5 : rank_order[k + 1] = x.rank
              ry == CHOOSE k \in 0..5 : rank_order[k + 1] = y.rank
              raised ==
                  \/ rx < ry /\ x.experience = y.experience
                             /\ x.awards_count = y.awards_count
                  \/ rx = ry /\ x.experience < y.experience
                             /\ x.awards_count = y.awards_count
                  \/ rx = ry /\ x.experience = y.experience
                             /\ x.awards_count < y.awards_count
          IN raised =>
                /\ last.contract < last'.contract
                /\ last.premium.num * last'.premium.den
                      < last'.premium.num * last.premium.den
                /\ last.total.num * last'.total.den
                      < last'.total.num * last.total.den]_vars

\* the cost of a LEAD with an award was computed, in a roster that also
\* holds a LEAD of the same experience without awards
C16_Witness ==
    /\ last.op = "contract_cost"
    /\ last.actor = [rank |-> "LEAD", awards_count |-> 1, experience |-> 1]
    /\ last.contract = 57000
    /\ \E a \in DOMAIN actors :
          /\ actors[a].rank = "LEAD"
          /\ actors[a].awards_count = 0
          /\ actors[a].experience = 1

\* C17: skip_year adds rights_sale = floor(capital * u), for a u in
\* [0.1, 0.2], to the capital and 1 to the year (capital 1000000 and
\* u = 0.15 give 150000); the capital does not decrease and no performance,
\* plot, actor or cast changes.
C17_SkipYear ==
    [][last'.op = "skip"
       => /\ \E u \in 10..20 :
                last'.rights_sale = (game_data.capital * u) \div 100
          /\ game_data'.capital = game_data.capital + last'.rights_sale
          /\ game_data'.current_year = game_data.current_year + 1
          /\ game_data'.capital >= game_data.capital
          /\ RightsSale(1000000, 15) = 150000
          /\ UNCHANGED <<performances, plots, actors, actor_performances>>]_vars

\* a year was skipped with the largest sale of rights
C17_Witness ==
    /\ last.op = "skip"
    /\ last.rights_sale = 12
    /\ game_data = [current_year |-> START_YEAR + 1, capital |-> 72]

\* C18: every call of skip_year completes, and the stored game state after
\* the call is the year and the capital the call returned.
C18_SkipStored ==
    last.op = "skip"
       => /\ last.ok
          /\ game_data.current_year = last.year
          /\ game_data.capital = last.capital

\* C19: deleting a plot that a performance, pending or completed, refers
\* to returns failure with the "in use" message and leaves the plots and
\* the performances as they were.
C19_PlotInUse ==
    [][(/\ last'.op = "delete_plot"
        /\ \E i \in 1..Len(performances) : performances[i].plot_id = last'.plot_id)
       => /\ ~last'.ok
          /\ last'.message = "in_use"
          /\ plots' = plots
          /\ performances' = performances]_vars

\* the deletion of the plot of the pending performance was refused, after
\* an unused plot had been deleted
C19_Witness ==
    /\ last.op = "delete_plot"
    /\ ~last.ok
    /\ last.message = "in_use"
    /\ last.plot_id = 3
    /\ ~performances[3].is_completed
    /\ DOMAIN plots = 1..5

\* C20: a plot that a completed performance refers to keeps its minimum
\* budget, production cost, role count, demand and required ranks in every
\* step of the controller.
C20_PlotImmutable ==
    [][\A p \in DOMAIN plots :
          (\E i \in 1..Len(performances) :
              performances[i].plot_id = p /\ performances[i].is_completed)
          => (p \in DOMAIN plots' /\ plots'[p] = plots[p])]_vars

\* C21: an actor with a row of a pending performance is deleted by no
\* operation, and delete_actor_by_id on such an actor returns failure and
\* leaves the actor and every cast assignment as they were.
C21_BusyActorKept ==
    [][\A a \in DOMAIN actors :
          (\E p \in 1..Len(performances) :
              /\ ~performances[p].is_completed
              /\ \E i \in 1..Len(actor_performances[p]) :
                    actor_performances[p][i].actor_id = a)
          => /\ a \in DOMAIN actors'
             /\ (last'.op = "delete_actor" /\ last'.actor_id = a)
                   => /\ ~last'.ok
                      /\ actors'[a] = actors[a]
                      /\ actor_performances' = actor_performances]_vars

\* the deletion of an actor of the pending cast was refused in a troupe
\* large enough to lose an actor
C21_Witness ==
    /\ last.op = "delete_actor"
    /\ ~last.ok
    /\ last.actor_id = 1
    /\ Cardinality(DOMAIN actors) > MIN_ACTORS
    /\ \E p \in 1..Len(performances) :
          /\ ~performances[p].is_completed
          /\ \E i \in 1..Len(actor_performances[p]) :
                actor_performances[p][i].actor_id = 1

\* C22: no step changes the contract cost stored for a cast assignment that
\* exists before and after the step, and a settlement counts, as the cost of
\* the cast, the stored contract costs, whatever rank, experience and awards
\* the actors have by then.
C22_ContractFixed ==
    [][/\ \A p \in 1..Len(actor_performances) :
             \A i \in 1..Len(actor_performances[p]) :
                \A j \in 1..Len(actor_performances'[p]) :
                   actor_performances'[p][j].actor_id = actor_performances[p][i].actor_id
                   => actor_performances'[p][j].contract_cost
                         = actor_performances[p][i].contract_cost
       /\ (last'.op = "settle" /\ last'.ok)
             => LET p == last'.performance_id
                    rows == actor_performances[p]
                IN last'.total_spent
                      = plots[performances[p].plot_id].production_cost
                        + SeqSum([i \in 1..Len(rows) |-> rows[i].contract_cost])]_vars

\* a settlement of a cast with an actor whose rank was changed after the
\* assignment: the stored contracts, 5 and 10, were counted
C22_Witness ==
    /\ Settled
    /\ last.performance_id = 2
    /\ last.total_spent = 65
    /\ actor_performances[2] = <<[actor_id |-> 9, contract_cost |-> 5],
                                 [actor_id |-> 1, contract_cost |-> 10]>>
    /\ actors[9].rank = "MASTER"
    /\ actors[9].experience = 1

\* C23: a settlement is determined by the stored state and the draws: with
\* any order in which the database may return the cast, the compliance flag
\* and the list of awarded actors are those of the settlement that ran, so
\* that two settlements from the same state with the same draws agree.
C23_Deterministic ==
    [][(last'.op = "settle" /\ last'.ok)
       => LET p == last'.performance_id
              plot == plots[performances[p].plot_id]
              required_ranks == ParseRequiredRanks(PgArrayText(plot.required_ranks))
          IN \A cast \in get_actors_in_performance(actors, actor_performances[p]) :
                /\ ActorsMatchRequirements(cast, required_ranks)
                      = last'.actors_match_requirements
                /\ last'.profit > 0
                      => [i \in 1..Len(Top(SortedActors(cast))) |->
                             Top(SortedActors(cast))[i].actor_id]
                            = last'.awarded_actors]_vars

\* C24: in the user interface a year is skipped only from the main window
\* with no dialog open, a performance is created only from the open dialog
\* with no flow in progress and with the game state the dialog read still
\* the stored one, and the only settlement is the last call of the flow in
\* progress, on the performance that flow created; every call finds the
\* game state the previous call wrote.
C24_NoInterleaving ==
    [][/\ (last'.op = "skip" /\ last' # last) => dialog.pc = "window"
       /\ (last'.op = "create" /\ last' # last)
             => (dialog.pc = "dialog" /\ dialog.game_data = game_data)
       /\ (last'.op = "settle" /\ last' # last)
             => /\ dialog.pc = "assign"
                /\ dialog.roles_data = <<>>
                /\ last'.performance_id = dialog.performance_id
                /\ last.op \in {"create", "assign"}
       /\ (last.op \in {"create", "settle", "skip"} /\ last.ok /\ last' # last)
             => game_data = [current_year |-> last.written_year,
                             capital |-> last.written_capital]]_vars

\* a second flow is between its creation and its settlement, after a first
\* flow and a skipped year
C24_Witness ==
    /\ dialog.pc = "assign"
    /\ Len(dialog.roles_data) = 1
    /\ dialog.performance_id = 3
    /\ last.op = "assign"
    /\ game_data.current_year = START_YEAR + 2

\* C25: over one flow of the dialog (a creation with a budget, the cast
\* assignments, the successful settlement of that performance, nothing in
\* between) the capital after the settlement minus the capital before the
\* creation is the settlement's revenue minus its total expenses, which is
\* its profit.
C25_NetChange ==
    [][(dialog.pc = "assign" /\ last'.op = "settle" /\ last'.ok)
       => /\ game_data'.capital - dialog.capital_before
                = last'.revenue - last'.budget
          /\ last'.profit = last'.revenue - last'.budget
          /\ last'.budget = last'.actual_budget + last'.unexpected_expenses]_vars

\* a flow has ended with part of the budget unspent and with unexpected
\* expenses
C25_Witness ==
    /\ dialog.pc = "window"
    /\ last.op = "settle"
    /\ last.ok
    /\ last.saved_budget > 0
    /\ last.unexpected_expenses > 0
    /\ game_data.capital = last.written_capital

\* C26: a create_new_performance that returns failure leaves the capital,
\* the current year and the performances unchanged; one that returns
\* success adds exactly one performance, which is pending, and lowers the
\* capital by exactly its budget.
C26_CreateOutcome ==
    [][(last'.op = "create")
       => IF last'.ok
          THEN /\ Len(performances') = Len(performances) + 1
               /\ SubSeq(performances', 1, Len(performances)) = performances
               /\ ~performances'[Len(performances')].is_completed
               /\ game_data'.capital
                     = game_data.capital - performances'[Len(performances')].budget
          ELSE UNCHANGED <<game_data, performances>>]_vars

\* C27: the stored current year never decreases; create_new_performance
\* leaves it unchanged whatever its year argument, and a settlement and
\* skip_year each raise it by exactly 1.
C27_YearMonotone ==
    [][/\ game_data'.current_year >= game_data.current_year
       /\ last'.op = "create" => game_data'.current_year = game_data.current_year
       /\ (last'.op \in {"settle", "skip"} /\ last'.ok /\ last' # last)
             => game_data'.current_year = game_data.current_year + 1]_vars

\* C28: in a settlement of a performance whose plot has demand >= 1 and
\* whose contract costs are all positive, the revenue is at least the
\* unexpected expenses, and the capital after the settlement is at least the
\* capital just before it, whatever the draws.
C28_NoLoss ==
    [][(/\ last'.op = "settle" /\ last'.ok /\ last'.failed = {}
        /\ LET p == last'.performance_id
           IN /\ plots[performances[p].plot_id].demand >= 1
              /\ \A i \in 1..Len(actor_performances[p]) :
                    actor_performances[p][i].contract_cost > 0)
       => /\ last'.revenue >= last'.unexpected_expenses
          /\ game_data'.capital >= game_data.capital]_vars

\* a failed performance with a cast that misses the required ranks, the
\* lowest revenue factor and the highest unexpected expenses
C28_Witness ==
    /\ last.op = "settle"
    /\ last.ok
    /\ last.failed = {}
    /\ last.tier = "FAILURE"
    /\ ~last.actors_match_requirements
    /\ last.random_factor = 30
    /\ last.unexpected_expenses = (last.actual_budget * 15) \div 100
    /\ last.unexpected_expenses > 0
    /\ Len(actor_performances[last.performance_id]) = 2
    /\ \A i \in 1..2 : actor_performances[last.performance_id][i].contract_cost > 0

\* C29: in every reachable state every cast assignment belongs to an
\* existing performance and names an existing actor, every performance names
\* an existing plot, and right after a successful delete_actor_by_id the
\* actor is gone and no cast assignment names it.
C29_ReferentialIntegrity ==
    /\ Len(actor_performances) = Len(performances)
    /\ \A p \in 1..Len(actor_performances) :
          \A i \in 1..Len(actor_performances[p]) :
             actor_performances[p][i].actor_id \in DOMAIN actors
    /\ \A p \in 1..Len(performances) : performances[p].plot_id \in DOMAIN plots
    /\ (last.op = "delete_actor" /\ last.ok)
          => /\ last.actor_id \notin DOMAIN actors
             /\ \A p \in 1..Len(actor_performances) :
                   \A i \in 1..Len(actor_performances[p]) :
                      actor_performances[p][i].actor_id # last.actor_id

\* an actor with cast assignments in two performances, both completed by
\* then, has been deleted
C29_Witness ==
    /\ last.op = "delete_actor"
    /\ last.ok
    /\ last.actor_id = 1
    /\ Len(performances) = 2
    /\ \A p \in 1..2 : performances[p].is_completed /\ Len(actor_performances[p]) = 1

\* C30: a settlement of performance p leaves every other performance, every
\* actor outside the cast of p, every plot and every cast assignment as it
\* was; a refused settlement changes no table.
C30_SettleFrame ==
    [][(last'.op = "settle" /\ last' # last)
       => LET p == last'.performance_id IN
          IF last'.ok
          THEN /\ Len(performances') = Len(performances)
               /\ \A q \in 1..Len(performances) :
                     q # p => performances'[q] = performances[q]
               /\ performances'[p].plot_id = performances[p].plot_id
               /\ performances'[p].year = performances[p].year
               /\ DOMAIN actors' = DOMAIN actors
               /\ \A a \in DOMAIN actors :
                     a \notin CastIds(actor_performances[p]) => actors'[a] = actors[a]
               /\ plots' = plots
               /\ actor_performances' = actor_performances
          ELSE UNCHANGED <<actors, plots, performances, actor_performances, game_data>>]_vars

\* the pending performance of the troupe has been settled at a profit: its
\* cast gained experience and an award, the seven other actors and the
\* completed performance of the year before are as they were
C30_Witness ==
    /\ last.op = "settle"
    /\ last.ok
    /\ last.performance_id = 2
    /\ last.awarded_actors # <<>>
    /\ performances[2].is_completed
    /\ performances[1].revenue = 80
    /\ Cardinality(DOMAIN actors) = 9
    /\ actors[9].experience = 1
    /\ actors[2].experience = 0

====
